---- MODULE Spec2Model ----
(***************************************************************************)
(* smallsh (src/smallsh.c): the interpreter loop, the foreground and       *)
(* background launchers, the background job table and its reaper, the      *)
(* status record, and the SIGTSTP / SIGINT handlers.                       *)
(*                                                                         *)
(* The shell is one sequential process whose position is pc; children are  *)
(* OS processes that run concurrently with it (proc).  Signals are         *)
(* delivered to the shell at any position of the loop.                     *)
(*                                                                         *)
(* Spec and SpecSmallTable follow the shell and see a child as what the    *)
(* shell can see of it; SpecChild follows the child side of one launch     *)
(* statement by statement (child).                                         *)
(***************************************************************************)
EXTENDS Integers, Sequences, FiniteSets, TLC

\* ------------------------------------------------------------------ bounds
\* Capacity of the job table.  smallsh.c:14 sets 20; the model is checked
\* with scaled-down tables: MAX_BG_PC slots, where the table always has room
\* for every child that can exist, and SmallTable slots, where it overflows.
MAX_BG_PC == 2
SmallTable == 1

\* Number of process ids the OS can hand out (live or zombie at one time).
MaxPid == 2

Pids == 1..MaxPid

\* --------------------------------------------------------------- constants
SIGINT == 2
SIGTERM == 15
SIGSEGV == 11

\* sa_flags of the two sigaction calls: does an interrupted system call
\* restart after the handler returns?
\* (variant: handle_SIGINT installed without SA_RESTART)
SIGINT_norestart == FALSE

SIGINT_restart == TRUE
SIGTSTP_restart == FALSE

\* ------------------------------------------------------------------ domains
\* Exit codes a program may return (success, and the two codes the child
\* code of the shell also exits with), and signals that may kill it.
ProgExitCodes == {0, 1, 2}
KillSignals == {SIGINT, SIGTERM}

Exited(c) == [kind |-> "exited", code |-> c]
Signaled(s) == [kind |-> "signaled", code |-> s]
NoTerm == [kind |-> "none", code |-> 0]

\* What waitpid can report for a terminated child.
Terminations ==
    {Exited(c) : c \in ProgExitCodes \cup {1, 2}} \cup {Signaled(s) : s \in KillSignals}

\* Contents an int that was never written may have, as the W* macros see it:
\* an exit with any code (low seven bits 0), a kill by any signal number
\* (low seven bits 1..126), or neither (e.g. a "stopped" bit pattern).
\* StraySignal and StrayCode stand for the numbers no child of this model
\* ends with.
StraySignal == 119
StrayCode == 255
IndeterminateStatus ==
    Terminations \cup {Signaled(StraySignal), Exited(StrayCode)}
        \cup {[kind |-> "other", code |-> 0]}

\* A path operand of < or >: absent, a path that opens, a path that does not.
Paths == {"none", "ok", "bad"}

\* One input line together with what the OS will answer to the child that
\* runs it: struct command_line, reduced to what the dispatcher and the
\* launchers read.
\*   kind: what the first word selects in main();
\*   parse: how parse_input gets through the line ("ok", or one of the
\*   cases below);
\*   prog: whether execvp can run argv[0];
\*   dup2: which dup2 call of the child fails, if one does ("fails0": the
\*   one onto standard input, "fails1": the one onto standard output).
NoCmd == [kind |-> "null", is_bg |-> FALSE, input_file |-> "none",
          output_file |-> "none", prog |-> "ok", dup2 |-> "ok", parse |-> "ok"]

BuiltinKinds == {"comment", "exit", "cd", "status"}

\* Ways parse_input fails, whatever the first word of the line is:
\*   "noperand": < or > is the last token (`status >`, `ls <`), so strtok
\*   returns NULL and lines 133 / 135 call strdup(NULL);
\*   "overlong": far more tokens than argv has slots (MAX_ARGS + 1), so
\*   line 139 writes beyond the allocated struct.
ParseFails == {"noperand", "overlong"}

\* Ways parse_input returns: "ok", or "spill", a line of exactly MAX_ARGS + 2
\* words: line 139 stores the last word in argv[MAX_ARGS + 1], which is
\* where argc lies, and returns.  The line is dispatched as any other (the
\* other fields are intact, argc is not zero); argc is read again by
\* free_command only.
ParseReturns == {"ok", "spill"}

\* The redirections, the program and the dup2 outcome of an external
\* command: one combination for each way a launch can go (runs, exec fails,
\* input fails, output fails, both paths open, dup2 fails on either side).
Launches ==
    { <<"none", "none", "ok", "ok">>, <<"none", "none", "bad", "ok">>,
      <<"bad", "ok", "ok", "ok">>, <<"ok", "bad", "ok", "ok">>,
      <<"ok", "ok", "ok", "ok">>,
      <<"none", "none", "ok", "fails0">>, <<"ok", "ok", "ok", "fails1">> }

\* Redirection operands on a built-in line: neither operator, or both
\* operators with their operands.
BuiltinOperands == { <<"none", "none">>, <<"bad", "ok">> }

\* Lines the user may type: every built-in with and without a trailing &
\* and redirections, every launch with and without &, and for every kind
\* of first word the lines on which parse_input fails or spills into argc
\* (for a launch also with &, and with an input path that does not open).
Commands ==
    { [kind |-> k, is_bg |-> b, input_file |-> o[1], output_file |-> o[2],
       prog |-> "ok", dup2 |-> "ok", parse |-> "ok"] :
          k \in BuiltinKinds, b \in BOOLEAN, o \in BuiltinOperands }
    \cup
    { [kind |-> "ext", is_bg |-> b, input_file |-> l[1], output_file |-> l[2],
       prog |-> l[3], dup2 |-> l[4], parse |-> "ok"] :
          b \in BOOLEAN, l \in Launches }
    \cup
    { [NoCmd EXCEPT !.kind = k, !.parse = f] :
          k \in BuiltinKinds \cup {"ext"}, f \in ParseFails \cup {"spill"} }
    \cup
    { [NoCmd EXCEPT !.kind = "ext", !.is_bg = TRUE, !.parse = "spill"] }
    \cup
    { [NoCmd EXCEPT !.kind = "ext", !.is_bg = b, !.parse = "spill",
                    !.input_file = "bad"] : b \in BOOLEAN }

\* ---------------------------------------------------------------- variables
VARIABLES
    pc,                  \* position of the shell in main()
    slot,                \* i of the loop in check_background_processes (from 1)
    fg_only,             \* static bool fg_only
    background_processes,\* int background_processes[MAX_BG_PC]; 0 = empty
    prev_fg_status,      \* struct last_status prev_fg_status
    cmd_is_bg,           \* curr_command->is_bg while a launcher runs
    cmd_spill,           \* curr_command->argc was overwritten by parse_input
    fgPid,               \* childPid of foreground_process, 0 outside it
    proc,                \* the OS process table: one entry per pid
    exit_code,           \* exit status of the shell once pc = "done"
    out,                 \* what the shell's last step wrote to the terminal
    ev,                  \* the shell's last step
    fgRan,               \* has foreground_process been entered yet
    announced,           \* pids printed as "background pid is P", unreported
    child                \* one child between fork and exit, step by step

vars == <<pc, slot, fg_only, background_processes, prev_fg_status, cmd_is_bg,
          cmd_spill, fgPid, proc, exit_code, out, ev, fgRan, announced, child>>

\* One process-table entry.
\*   st: "free" (pid unused), "pre" (forked, still in the code of the
\*   shell: redirection and the call of execvp), "run" (program image
\*   replaced), "zombie" (terminated, not yet waited for), "lost" (a child
\*   whose pid the shell no longer holds: no later waitpid names it, and it
\*   keeps its pid, running or zombie, for as long as the shell lives).
\*   res: for "pre", what redirection and execvp will come to for the
\*   command the child holds (NoTerm: the program runs); for "zombie", the
\*   status waitpid will report.
FreeProc == [st |-> "free", res |-> NoTerm]

\* The child of one launch, followed statement by statement.
\*   at: "none" (not forked), "forked", "in_done" (input side settled),
\*   "out_done" (output side settled), "run" (execvp succeeded), "exited".
\*   cmd, bg: the command_line the child holds and the launcher it runs in.
\*   fd0, fd1: what standard input and output are bound to: "shell" (the
\*   stream inherited from the shell), "/dev/null", "input_file",
\*   "output_file".
\*   opens: the open() calls made so far, in order.
\*   sigint: the disposition of SIGINT: "handler" (handle_SIGINT, as fork
\*   copies it from the shell) or "default".
\*   status: the wait status once at = "exited".
NoChild == [at |-> "none", cmd |-> NoCmd, bg |-> FALSE, fd0 |-> "shell",
            fd1 |-> "shell", opens |-> <<>>, sigint |-> "handler",
            status |-> NoTerm]

\* Every external command: each operand absent, opening or not, the program
\* found or not, with and without a trailing &.
ExtCommands ==
    [kind : {"ext"}, is_bg : BOOLEAN, input_file : Paths, output_file : Paths,
     prog : {"ok", "bad"}, dup2 : {"ok", "fails0", "fails1"}, parse : {"ok"}]

\* --------------------------------------------------------------------- Init
Init ==
    /\ pc = "reap"
    /\ slot = 1
    /\ fg_only = FALSE
    /\ background_processes = [i \in 1..MAX_BG_PC |-> 0]
    /\ prev_fg_status = [exited |-> FALSE, terminated |-> FALSE, code |-> 0]
    /\ cmd_is_bg = FALSE
    /\ cmd_spill = FALSE
    /\ fgPid = 0
    /\ proc = [p \in Pids |-> FreeProc]
    /\ exit_code = -1
    /\ out = <<>>
    /\ ev = "init"
    /\ fgRan = FALSE
    /\ announced = {}
    /\ child = NoChild

\* ----------------------------------------------------------------- messages
PromptMsg == <<"prompt">>
EnterMsg == <<"Entering foreground-only mode (& is now ignored)">>
ExitMsg == <<"Exiting foreground-only mode">>
WaitErrMsg == <<"wait: error">>
ForkErrMsg == <<"fork()\n: error">>
BgPidMsg(p) == <<"background pid is", p>>
BgDoneExitMsg(p, c) == <<"background pid is done: exit value", p, c>>
BgDoneSigMsg(p, s) == <<"background pid is done: terminated by signal", p, s>>
TermMsg(s) == <<"terminated by signal", s>>
ExitValueMsg(c) == <<"exit value", c>>
ExitStatus0Msg == <<"exit status 0">>

\* ------------------------------------------------------------ pure helpers
\* handle_SIGTSTP: the new value of fg_only and the banner written.
handle_SIGTSTP_flag(f) == IF ~f THEN TRUE ELSE FALSE
\* (variant: the two banners exchanged)
handle_SIGTSTP_out_swapped(f) == IF ~f THEN <<ExitMsg>> ELSE <<EnterMsg>>

handle_SIGTSTP_out(f) == IF ~f THEN <<EnterMsg>> ELSE <<ExitMsg>>

\* handle_SIGINT: empty body.
handle_SIGINT_flag(f) == f
handle_SIGINT_out(f) == <<>>

HandlerFlag(sig, f) ==
    IF sig = "TSTP" THEN handle_SIGTSTP_flag(f) ELSE handle_SIGINT_flag(f)
HandlerOut(sig, f) ==
    IF sig = "TSTP" THEN handle_SIGTSTP_out(f) ELSE handle_SIGINT_out(f)
Restarts(sig) == IF sig = "TSTP" THEN SIGTSTP_restart ELSE SIGINT_restart

\* add_bg_process: pid goes to the lowest-index slot holding 0; a full
\* table is returned unchanged.
FreeSlots(tbl) == {i \in DOMAIN tbl : tbl[i] = 0}
FirstFree(tbl) == CHOOSE i \in FreeSlots(tbl) : \A j \in FreeSlots(tbl) : i <= j
\* (variant: a full table gives up its last slot to the new pid)
add_bg_process_evict(tbl, pid) ==
    IF FreeSlots(tbl) # {} THEN [tbl EXCEPT ![FirstFree(tbl)] = pid]
    ELSE [tbl EXCEPT ![Len(tbl)] = pid]

\* (variant: the pid goes to the highest-index free slot)
add_bg_process_last(tbl, pid) ==
    IF FreeSlots(tbl) # {}
    THEN [tbl EXCEPT ![CHOOSE i \in FreeSlots(tbl) : \A j \in FreeSlots(tbl) : i >= j] = pid]
    ELSE tbl

add_bg_process(tbl, pid) ==
    IF FreeSlots(tbl) # {} THEN [tbl EXCEPT ![FirstFree(tbl)] = pid] ELSE tbl

\* waitpid(pid, &st, WNOHANG) as the reaper sees it: pid when the child has
\* terminated, 0 while it has not, -1 when pid is no child of the shell.
waitpid_nohang(pt, pid) ==
    IF pt[pid].st = "zombie" THEN pid
    ELSE IF pt[pid].st = "free" THEN -1 ELSE 0

\* (variant: the WIFSIGNALED branch left out)
BgDoneOut_exitonly(pid, w) ==
    IF w.kind = "exited" THEN <<BgDoneExitMsg(pid, w.code)>> ELSE <<>>

\* The line the reaper prints for a collected status.
BgDoneOut(pid, w) ==
    IF w.kind = "exited" THEN <<BgDoneExitMsg(pid, w.code)>>
    ELSE IF w.kind = "signaled" THEN <<BgDoneSigMsg(pid, w.code)>>
    ELSE <<>>

\* (variant: each branch sets its own flag and leaves the other one)
Classify_keepsother(rec, w) ==
    IF w.kind = "signaled"
    THEN [rec EXCEPT !.terminated = TRUE, !.code = w.code]
    ELSE IF w.kind = "exited"
    THEN [rec EXCEPT !.exited = TRUE, !.code = w.code]
    ELSE rec

\* foreground_process, lines 242-250: classification of fgStatus into the
\* status record; a status that is neither leaves the record alone.
Classify(rec, w) ==
    IF w.kind = "signaled"
    THEN [exited |-> FALSE, terminated |-> TRUE, code |-> w.code]
    ELSE IF w.kind = "exited"
    THEN [exited |-> TRUE, terminated |-> FALSE, code |-> w.code]
    ELSE rec

\* foreground_process, lines 251-253.
FgOut(rec) == IF rec.terminated THEN <<TermMsg(rec.code)>> ELSE <<>>

\* The status built-in, lines 396-402.
StatusOut(rec) ==
    IF rec.exited THEN <<ExitValueMsg(rec.code)>>
    ELSE IF rec.terminated THEN <<TermMsg(rec.code)>>
    ELSE <<ExitStatus0Msg>>

\* What the child does between fork and execvp.  A foreground child opens
\* only the paths that were given; a background child opens /dev/null for a
\* side that was not given (and /dev/null opens).
\* Each side that is opened is then bound with dup2; a failing open ends the
\* child with exit(1), a failing dup2 with exit(2), both before execvp.
\* A failing execvp ends it with exit(2) as well: ExecFailure keeps that
\* apart from the exits of the redirection code.
OpensOk(path, bg) == path = "ok" \/ path = "none"
Dup2Called(path, bg) == path # "none" \/ bg
ExecFailure == [kind |-> "noexec", code |-> 2]
\* (variant: a failed open of the input side does not end the child)
ChildResult_goeson(c, bg) ==
    IF Dup2Called(c.input_file, bg) /\ OpensOk(c.input_file, bg) /\ c.dup2 = "fails0"
    THEN Exited(2)
    ELSE IF ~OpensOk(c.output_file, bg) THEN Exited(1)
    ELSE IF Dup2Called(c.output_file, bg) /\ c.dup2 = "fails1" THEN Exited(2)
    ELSE IF c.prog # "ok" THEN ExecFailure
    ELSE NoTerm

ChildResult(c, bg) ==
    IF ~OpensOk(c.input_file, bg) THEN Exited(1)
    ELSE IF Dup2Called(c.input_file, bg) /\ c.dup2 = "fails0" THEN Exited(2)
    ELSE IF ~OpensOk(c.output_file, bg) THEN Exited(1)
    ELSE IF Dup2Called(c.output_file, bg) /\ c.dup2 = "fails1" THEN Exited(2)
    ELSE IF c.prog # "ok" THEN ExecFailure
    ELSE NoTerm

\* The dispatch test of main(), line 405.
RunsInBackground(c, f) == c.is_bg /\ f = FALSE

\* fork() in the parent: the pid of the new child.  The OS hands out a pid
\* that no live or unreaped process holds; here the lowest such pid.
HasFreePid(pt) == \E p \in Pids : pt[p].st = "free"
fork(pt) == CHOOSE p \in Pids : pt[p].st = "free" /\ \A q \in Pids : pt[q].st = "free" => p <= q

\* The child as fork() leaves it: a copy of the shell holding the command.
Forked(c, bg) == [st |-> "pre", res |-> ChildResult(c, bg)]

\* After execvp the command_line copy is gone; a terminated child is only its
\* wait status.
Running == [st |-> "run", res |-> NoTerm]
Zombie(t) == [st |-> "zombie", res |-> t]
Lost == [st |-> "lost", res |-> NoTerm]

\* -------------------------------------------------------- the reaper sweep
\* (variant: the collected slot is not zeroed, line 91 left out)
Sweep_keepslot(i, tbl, pt) ==
    LET p == tbl[i]
        r == IF p # 0 THEN waitpid_nohang(pt, p) ELSE 0
    IN  IF r > 0
        THEN [tbl |-> tbl, pt |-> [pt EXCEPT ![p] = FreeProc],
              out |-> BgDoneOut(r, pt[p].res)]
        ELSE [tbl |-> tbl, pt |-> pt, out |-> <<>>]

\* The body of the for loop of check_background_processes for slot i (lines
\* 79-92), applied to the job table tbl and the process table pt.  A slot
\* whose waitpid reports a terminated child is printed, collected and zeroed.
Sweep(i, tbl, pt) ==
    LET p == tbl[i]
        r == IF p # 0 THEN waitpid_nohang(pt, p) ELSE 0
    IN  IF r > 0
        THEN [tbl |-> [tbl EXCEPT ![i] = 0], pt |-> [pt EXCEPT ![p] = FreeProc],
              out |-> BgDoneOut(r, pt[p].res)]
        ELSE [tbl |-> tbl, pt |-> pt, out |-> <<>>]

\* (variant: the reaper stores what it collected in the status record)
check_background_processes_status ==
    /\ pc = "reap"
    /\ LET s == Sweep(slot, background_processes, proc)
       IN  /\ background_processes' = s.tbl
           /\ proc' = s.pt
           /\ out' = s.out
           /\ announced' = {p \in announced : s.pt[p].st # "free"}
           /\ prev_fg_status' =
                 IF s.tbl # background_processes
                 THEN Classify(prev_fg_status, proc[background_processes[slot]].res)
                 ELSE prev_fg_status
    /\ IF slot = Len(background_processes)
       THEN pc' = "swept" /\ slot' = 1
       ELSE pc' = "reap" /\ slot' = slot + 1
    /\ ev' = "reap"
    /\ UNCHANGED <<child, fg_only, cmd_is_bg, cmd_spill, fgPid, exit_code, fgRan>>

\* check_background_processes, one slot at a time: each pass of the loop is
\* its own waitpid(WNOHANG), printf and store, and a signal handler or a
\* child can run between two passes.  After the last slot the function
\* returns.
check_background_processes ==
    /\ pc = "reap"
    /\ LET s == Sweep(slot, background_processes, proc)
       IN  /\ background_processes' = s.tbl
           /\ proc' = s.pt
           /\ out' = s.out
           /\ announced' = {p \in announced : s.pt[p].st # "free"}
    /\ IF slot = Len(background_processes)
       THEN pc' = "swept" /\ slot' = 1
       ELSE pc' = "reap" /\ slot' = slot + 1
    /\ ev' = "reap"
    /\ UNCHANGED <<child, fg_only, prev_fg_status, cmd_is_bg, cmd_spill, fgPid,
                   exit_code, fgRan>>

\* parse_input, lines 126-127: the sweep is over, the prompt is written and
\* the shell blocks in fgets.
ShowPrompt ==
    /\ pc = "swept"
    /\ pc' = "prompt"
    /\ out' = <<PromptMsg>>
    /\ ev' = "prompt"
    /\ UNCHANGED <<child, slot, fg_only, background_processes, prev_fg_status, cmd_is_bg, cmd_spill, fgPid,
                   proc, exit_code, fgRan, announced>>

\* ------------------------------------------------------------- built-ins
\* Each of the following is parse_input returning the line c followed by the
\* branch of main() that c selects.  (An fgets that a signal interrupted
\* returns without writing input[]; the line parsed is then whatever the
\* array held, which is again some c.)

\* (variant: the next iteration starts after the call of the reaper)
NextIteration_skipreaper ==
    /\ pc' = "swept"
    /\ cmd_is_bg' = FALSE
    /\ cmd_spill' = FALSE

\* Back to the top of while(true).
NextIteration ==
    /\ pc' = "reap"
    /\ cmd_is_bg' = FALSE
    /\ cmd_spill' = FALSE

\* End of one loop iteration: free_command (lines 151-154), then the next
\* iteration.  When parse_input wrote a pointer over argc, the loop of
\* free_command runs up to whatever argc now holds: with a positive value
\* it frees what lies behind argv and the shell is killed by SIGSEGV, with
\* a negative one it frees nothing and the shell goes on.
EndIteration(spill) ==
    \/ /\ NextIteration
       /\ exit_code' = exit_code
    \/ /\ spill
       /\ pc' = "done"
       /\ exit_code' = -SIGSEGV
       /\ cmd_is_bg' = FALSE
       /\ cmd_spill' = FALSE

DoComment(c) ==
    /\ pc = "prompt"
    /\ c.kind = "comment"
    /\ c.parse \in ParseReturns
    /\ EndIteration(c.parse = "spill")
    /\ out' = <<>>
    /\ ev' = "comment"
    /\ UNCHANGED <<child, slot, fg_only, background_processes, prev_fg_status, fgPid, proc,
                   fgRan, announced>>

DoExit(c) ==
    /\ pc = "prompt"
    /\ c.kind = "exit"
    /\ c.parse \in ParseReturns
    /\ pc' = "done"
    /\ exit_code' = 0
    /\ out' = <<>>
    /\ ev' = "exit"
    /\ UNCHANGED <<child, slot, fg_only, background_processes, prev_fg_status, cmd_is_bg, cmd_spill,
                   fgPid, proc, fgRan, announced>>

DoCd(c) ==
    /\ pc = "prompt"
    /\ c.kind = "cd"
    /\ c.parse \in ParseReturns
    /\ EndIteration(c.parse = "spill")
    /\ out' = <<>>
    /\ ev' = "cd"
    /\ UNCHANGED <<child, slot, fg_only, background_processes, prev_fg_status, fgPid, proc,
                   fgRan, announced>>

DoStatus(c) ==
    /\ pc = "prompt"
    /\ c.kind = "status"
    /\ c.parse \in ParseReturns
    /\ EndIteration(c.parse = "spill")
    /\ out' = StatusOut(prev_fg_status)
    /\ ev' = "status"
    /\ UNCHANGED <<child, slot, fg_only, background_processes, prev_fg_status, fgPid, proc,
                   fgRan, announced>>

\* -------------------------------------------------------------- launching
\* parse_input dies on the line (strdup(NULL) at lines 133 / 135, or the
\* store beyond argv at line 139): the shell is killed by SIGSEGV before
\* anything is dispatched, and its wait status is that signal.
ParseCrash(c) ==
    /\ pc = "prompt"
    /\ c.parse \in ParseFails
    /\ pc' = "done"
    /\ exit_code' = -SIGSEGV
    /\ out' = <<>>
    /\ ev' = "crash"
    /\ UNCHANGED <<child, slot, fg_only, background_processes, prev_fg_status, cmd_is_bg, cmd_spill,
                   fgPid, proc, fgRan, announced>>

\* fork() returning -1 in either launcher: perror("fork()\n"), exit(1).
ForkFail(c) ==
    /\ c.kind = "ext"
    /\ c.parse \in ParseReturns
    /\ \/ pc = "prompt" /\ ~RunsInBackground(c, fg_only)
       \/ pc = "bg_fork" /\ c.is_bg /\ (c.parse = "spill") = cmd_spill
    /\ pc' = "done"
    /\ exit_code' = 1
    /\ out' = <<ForkErrMsg>>
    /\ ev' = "fork_failed"
    /\ UNCHANGED <<child, slot, fg_only, background_processes, prev_fg_status, cmd_is_bg,
                   cmd_spill, fgPid, proc, fgRan, announced>>

\* The dispatch test of main() (line 405) sends the line to
\* background_process.  pc = "bg_fork" is the shell from that test to its
\* fork(): fg_only is not read again, so a SIGTSTP that arrives there
\* changes the mode and the launch is a background one all the same.
DispatchBackground(c) ==
    /\ pc = "prompt"
    /\ c.kind = "ext"
    /\ c.parse \in ParseReturns
    /\ RunsInBackground(c, fg_only)
    /\ HasFreePid(proc)
    /\ pc' = "bg_fork"
    /\ cmd_is_bg' = TRUE
    /\ cmd_spill' = (c.parse = "spill")
    /\ out' = <<>>
    /\ ev' = "bg_dispatch"
    /\ UNCHANGED <<child, slot, fg_only, background_processes, prev_fg_status, fgPid,
                   proc, exit_code, fgRan, announced>>

\* background_process, parent side: fork, record the pid, print it, return.
\* What the line holds besides & (operands, program) is read by the child
\* only, so c is any line that the dispatch could have sent here.
LaunchBackground(c) ==
    /\ pc = "bg_fork"
    /\ c.kind = "ext"
    /\ c.is_bg
    /\ c.parse \in ParseReturns
    /\ (c.parse = "spill") = cmd_spill
    /\ HasFreePid(proc)
    /\ LET p == fork(proc)
       IN  /\ proc' = [proc EXCEPT ![p] = Forked(c, TRUE)]
           /\ background_processes' = add_bg_process(background_processes, p)
           /\ out' = <<BgPidMsg(p)>>
           /\ announced' = announced \cup {p}
    /\ EndIteration(cmd_spill)
    /\ ev' = "bg_launch"
    /\ UNCHANGED <<child, slot, fg_only, prev_fg_status, fgPid, fgRan>>

\* foreground_process, parent side: fork, then waitpid(childPid, &fgStatus,
\* 0).  pc = "fg_wait" is the parent from the return of fork() to the
\* return of waitpid.
LaunchForeground(c) ==
    /\ pc = "prompt"
    /\ c.kind = "ext"
    /\ c.parse \in ParseReturns
    /\ ~RunsInBackground(c, fg_only)
    /\ HasFreePid(proc)
    /\ LET p == fork(proc)
       IN  /\ proc' = [proc EXCEPT ![p] = Forked(c, FALSE)]
           /\ fgPid' = p
    /\ fgRan' = TRUE
    /\ pc' = "fg_wait"
    /\ cmd_is_bg' = c.is_bg
    /\ cmd_spill' = (c.parse = "spill")
    /\ out' = <<>>
    /\ ev' = "fg_launch"
    /\ UNCHANGED <<child, slot, fg_only, background_processes, prev_fg_status,
                   exit_code, announced>>

\* (variant: the wait is for any child, waitpid(-1, &fgStatus, 0))
FgWaitReturn_anychild ==
    /\ pc = "fg_wait"
    /\ \E p \in Pids :
          /\ proc[p].st = "zombie"
          /\ p = fgPid \/ \E i \in DOMAIN background_processes :
                              background_processes[i] = p
          /\ LET rec == Classify(prev_fg_status, proc[p].res)
             IN  /\ prev_fg_status' = rec
                 /\ out' = FgOut(rec)
          /\ proc' = [proc EXCEPT ![p] = FreeProc,
                                  ![fgPid] = IF p = fgPid THEN FreeProc ELSE Lost]
    /\ fgPid' = 0
    /\ EndIteration(cmd_spill)
    /\ ev' = "fg_done"
    /\ UNCHANGED <<child, slot, fg_only, background_processes, fgRan, announced>>

\* waitpid returns the child's status; lines 242-254.
FgWaitReturn ==
    /\ pc = "fg_wait"
    /\ proc[fgPid].st = "zombie"
    /\ LET w == proc[fgPid].res
           rec == Classify(prev_fg_status, w)
       IN  /\ prev_fg_status' = rec
           /\ out' = FgOut(rec)
    /\ proc' = [proc EXCEPT ![fgPid] = FreeProc]
    /\ fgPid' = 0
    /\ EndIteration(cmd_spill)
    /\ ev' = "fg_done"
    /\ UNCHANGED <<child, slot, fg_only, background_processes, fgRan, announced>>

\* ----------------------------------------------------------------- signals
\* A signal is delivered to the shell: the handler runs, and a blocking call
\* the shell was in either restarts (SA_RESTART) or fails with EINTR.
\* An interrupted waitpid returns -1 and never writes fgStatus, so the W*
\* macros classify whatever that int held; childPid is overwritten with -1
\* and the child, still running, is never waited for again.
\* Between fork() returning (line 187) and waitpid being entered (line 238)
\* the shell is in no blocking call: a signal that arrives there only runs
\* its handler, and the wait that follows is an ordinary one.  The parent
\* can be held at that point for any time, so with a foreground child
\* alive both outcomes are possible for a signal that does not restart.
InWaitpid == pc = "fg_wait" /\ proc[fgPid].st # "zombie"
Signal(sig) ==
    /\ pc # "done"
    /\ fg_only' = HandlerFlag(sig, fg_only)
    /\ ev' = sig
    /\ \/ /\ InWaitpid /\ ~Restarts(sig)
          /\ \E w \in IndeterminateStatus :
                LET rec == Classify(prev_fg_status, w)
                IN  /\ prev_fg_status' = rec
                    /\ out' = HandlerOut(sig, fg_only) \o <<WaitErrMsg>> \o FgOut(rec)
          /\ EndIteration(cmd_spill)
          /\ fgPid' = 0
          /\ proc' = [proc EXCEPT ![fgPid] = Lost]
          /\ UNCHANGED <<child, slot, background_processes, fgRan, announced>>
       \/ /\ out' = HandlerOut(sig, fg_only)
          /\ UNCHANGED <<child, slot, pc, background_processes, prev_fg_status, cmd_is_bg, cmd_spill,
                         fgPid, proc, exit_code, fgRan, announced>>

\* ---------------------------------------------------------------- children
\* The child runs its side of the switch (lines 196-234, 285-332) up to the
\* return of execvp or the start of the program: a path that does not open
\* ends the child with exit(1), a dup2 that fails with exit(2), an execvp
\* that returns with exit(2); otherwise the program runs.  The shell sees
\* none of the statements in between (the child followed statement by
\* statement is ChildOpenInput .. ChildExecvp below).
ChildExec(p) ==
    /\ pc # "done"
    /\ proc[p].st = "pre"
    /\ LET r == proc[p].res
       IN  proc' = [proc EXCEPT ![p] =
                        IF r.kind = "exited" THEN Zombie(r)
                        ELSE IF r = ExecFailure THEN Zombie(Exited(r.code))
                        ELSE Running]
    /\ UNCHANGED <<child, slot, pc, fg_only, background_processes, prev_fg_status, cmd_is_bg, cmd_spill,
                   fgPid, exit_code, out, ev, fgRan, announced>>

\* The program ends by itself.
ChildExit(p) ==
    /\ pc # "done"
    /\ proc[p].st = "run"
    /\ \E t \in {Exited(c) : c \in ProgExitCodes} :
          proc' = [proc EXCEPT ![p] = Zombie(t)]
    /\ UNCHANGED <<child, slot, pc, fg_only, background_processes, prev_fg_status, cmd_is_bg, cmd_spill,
                   fgPid, exit_code, out, ev, fgRan, announced>>

\* Disposition of SIGINT in a child: fork copies the shell's handler
\* (handle_SIGINT, installed at line 357); execvp resets a caught signal to
\* the default action.  The child code sets no disposition itself.
ChildSigintDisposition(c) ==
    IF c.st = "pre" THEN "handler" ELSE "default"

\* SIGINT is delivered to child p.
ChildSIGINT(p) ==
    /\ pc # "done"
    /\ proc[p].st \in {"pre", "run"}
    /\ proc' = [proc EXCEPT ![p] =
                    IF ChildSigintDisposition(proc[p]) = "default"
                    THEN Zombie(Signaled(SIGINT))
                    ELSE @]
    /\ UNCHANGED <<child, slot, pc, fg_only, background_processes, prev_fg_status, cmd_is_bg, cmd_spill,
                   fgPid, exit_code, out, ev, fgRan, announced>>

\* SIGTERM is delivered to child p.  main() installs handlers for SIGINT
\* and SIGTSTP only (lines 345-370), so SIGTERM has its default action in a
\* child from fork() on: the child is killed, in the code of the shell
\* (before its open or its execvp has failed) as well as in its program.
ChildSIGTERM(p) ==
    /\ pc # "done"
    /\ proc[p].st \in {"pre", "run"}
    /\ proc' = [proc EXCEPT ![p] = Zombie(Signaled(SIGTERM))]
    /\ UNCHANGED <<child, slot, pc, fg_only, background_processes, prev_fg_status, cmd_is_bg, cmd_spill,
                   fgPid, exit_code, out, ev, fgRan, announced>>

\* ------------------------------------------------ the child, step by step
\* The variables of the shell proper.
shellvars == <<pc, slot, fg_only, background_processes, prev_fg_status, cmd_is_bg,
               cmd_spill, fgPid,
               proc, exit_code, out, ev, fgRan, announced>>

\* open() of one side: /dev/null opens, an operand opens when it is "ok".
OpenCall(file, path, mode) ==
    [file |-> file, mode |-> mode, ok |-> (file = "/dev/null" \/ path = "ok")]

\* The dispatch test and fork(): the child starts in the launcher that
\* line 405 selects, with the shell's streams.
ChildFork(c) ==
    /\ child.at = "none"
    /\ child' = [NoChild EXCEPT !.at = "forked", !.cmd = c,
                                 !.bg = RunsInBackground(c, fg_only)]
    /\ UNCHANGED shellvars

\* Input side.  foreground_process, lines 198-212: only when input_file is
\* given.  background_process, lines 286-305: input_file, or /dev/null when it
\* is not given.  An open that fails ends the child with exit(1); a dup2
\* that fails ends it with exit(2), standard input not rebound and the
\* output side never opened.
ChildOpenInput ==
    /\ child.at = "forked"
    /\ LET path == child.cmd.input_file
           call == OpenCall(IF path # "none" THEN "input_file" ELSE "/dev/null",
                            path, "O_RDONLY")
       IN  child' =
             IF ~child.bg /\ path = "none"
             THEN [child EXCEPT !.at = "in_done"]
             ELSE IF ~call.ok
             THEN [child EXCEPT !.at = "exited", !.status = Exited(1),
                                !.opens = Append(@, call)]
             ELSE IF child.cmd.dup2 = "fails0"
             THEN [child EXCEPT !.at = "exited", !.status = Exited(2),
                                !.opens = Append(@, call)]
             ELSE [child EXCEPT !.at = "in_done", !.fd0 = call.file,
                                !.opens = Append(@, call)]
    /\ UNCHANGED shellvars

\* (variant: a failed open of the output side does not end the child)
ChildOpenOutput_goeson ==
    /\ child.at = "in_done"
    /\ LET path == child.cmd.output_file
           call == OpenCall(IF path # "none" THEN "output_file" ELSE "/dev/null",
                            path, "O_WRONLY|O_CREAT|O_TRUNC")
       IN  child' =
             IF ~child.bg /\ path = "none"
             THEN [child EXCEPT !.at = "out_done"]
             ELSE IF call.ok /\ child.cmd.dup2 = "fails1"
             THEN [child EXCEPT !.at = "exited", !.status = Exited(2),
                                !.opens = Append(@, call)]
             ELSE [child EXCEPT !.at = "out_done",
                                !.fd1 = IF call.ok THEN call.file ELSE @,
                                !.opens = Append(@, call)]
    /\ UNCHANGED shellvars

\* (variant: the background launcher leaves an output side without operand
\* alone, as the foreground launcher does)
ChildOpenOutput_nodefault ==
    /\ child.at = "in_done"
    /\ LET path == child.cmd.output_file
           call == OpenCall("output_file", path, "O_WRONLY|O_CREAT|O_TRUNC")
       IN  child' =
             IF path = "none"
             THEN [child EXCEPT !.at = "out_done"]
             ELSE IF ~call.ok
             THEN [child EXCEPT !.at = "exited", !.status = Exited(1),
                                !.opens = Append(@, call)]
             ELSE IF child.cmd.dup2 = "fails1"
             THEN [child EXCEPT !.at = "exited", !.status = Exited(2),
                                !.opens = Append(@, call)]
             ELSE [child EXCEPT !.at = "out_done", !.fd1 = call.file,
                                !.opens = Append(@, call)]
    /\ UNCHANGED shellvars

\* Output side.  foreground_process, lines 214-228; background_process,
\* lines 307-327.  The open creates and truncates the file; when the dup2
\* that follows fails the child ends with exit(2), the file already created
\* and standard output not rebound.
ChildOpenOutput ==
    /\ child.at = "in_done"
    /\ LET path == child.cmd.output_file
           call == OpenCall(IF path # "none" THEN "output_file" ELSE "/dev/null",
                            path, "O_WRONLY|O_CREAT|O_TRUNC")
       IN  child' =
             IF ~child.bg /\ path = "none"
             THEN [child EXCEPT !.at = "out_done"]
             ELSE IF ~call.ok
             THEN [child EXCEPT !.at = "exited", !.status = Exited(1),
                                !.opens = Append(@, call)]
             ELSE IF child.cmd.dup2 = "fails1"
             THEN [child EXCEPT !.at = "exited", !.status = Exited(2),
                                !.opens = Append(@, call)]
             ELSE [child EXCEPT !.at = "out_done", !.fd1 = call.file,
                                !.opens = Append(@, call)]
    /\ UNCHANGED shellvars

\* execvp, lines 230-233 and 328-331: the program runs with the streams as
\* bound and every caught signal back at its default action, or execvp
\* returns and the child ends with exit(2).
ChildExecvp ==
    /\ child.at = "out_done"
    /\ child' = IF child.cmd.prog = "ok"
                THEN [child EXCEPT !.at = "run", !.sigint = "default"]
                ELSE [child EXCEPT !.at = "exited", !.status = Exited(2)]
    /\ UNCHANGED shellvars

\* The program returns.
ChildProgramExit ==
    /\ child.at = "run"
    /\ \E c \in ProgExitCodes :
          child' = [child EXCEPT !.at = "exited", !.status = Exited(c)]
    /\ UNCHANGED shellvars

\* --------------------------------------------------------------------- Next
Next ==
    \/ check_background_processes
    \/ ShowPrompt
    \/ \E c \in Commands : DoComment(c)
    \/ \E c \in Commands : DoExit(c)
    \/ \E c \in Commands : DoCd(c)
    \/ \E c \in Commands : DoStatus(c)
    \/ \E c \in Commands : ParseCrash(c)
    \/ \E c \in Commands : ForkFail(c)
    \/ \E c \in Commands : DispatchBackground(c)
    \/ \E c \in Commands : LaunchBackground(c)
    \/ \E c \in Commands : LaunchForeground(c)
    \/ FgWaitReturn
    \/ \E sig \in {"TSTP", "INT"} : Signal(sig)
    \/ \E p \in Pids : ChildExec(p)
    \/ \E p \in Pids : ChildExit(p)
    \/ \E p \in Pids : ChildSIGINT(p)
    \/ \E p \in Pids : ChildSIGTERM(p)

Spec == Init /\ [][Next]_vars

\* The same shell with a job table of SmallTable slots.
InitSmallTable ==
    /\ background_processes = [i \in 1..SmallTable |-> 0]
    /\ pc = "reap"
    /\ slot = 1
    /\ fg_only = FALSE
    /\ prev_fg_status = [exited |-> FALSE, terminated |-> FALSE, code |-> 0]
    /\ cmd_is_bg = FALSE
    /\ cmd_spill = FALSE
    /\ fgPid = 0
    /\ proc = [p \in Pids |-> FreeProc]
    /\ exit_code = -1
    /\ out = <<>>
    /\ ev = "init"
    /\ fgRan = FALSE
    /\ announced = {}
    /\ child = NoChild

SpecSmallTable == InitSmallTable /\ [][Next]_vars

\* One launch seen from the child: the shell is at the prompt in either mode,
\* a command is dispatched, and the child runs its side of the switch.
InitChild ==
    /\ fg_only \in BOOLEAN
    /\ pc = "prompt"
    /\ slot = 1
    /\ background_processes = [i \in 1..MAX_BG_PC |-> 0]
    /\ prev_fg_status = [exited |-> FALSE, terminated |-> FALSE, code |-> 0]
    /\ cmd_is_bg = FALSE
    /\ cmd_spill = FALSE
    /\ fgPid = 0
    /\ proc = [p \in Pids |-> FreeProc]
    /\ exit_code = -1
    /\ out = <<PromptMsg>>
    /\ ev = "prompt"
    /\ fgRan = FALSE
    /\ announced = {}
    /\ child = NoChild

\* The step-by-step child and ChildResult agree: a child that reached the
\* program is one for which ChildResult plans no failure, and a child that
\* ended before that ended with the status ChildResult plans.
ChildResultAgrees ==
    /\ child.at = "run" => ChildResult(child.cmd, child.bg) = NoTerm
    /\ (child.at = "exited" /\ ChildResult(child.cmd, child.bg) # NoTerm)
         => child.status = Exited(ChildResult(child.cmd, child.bg).code)
    /\ (child.at \in {"forked", "in_done", "out_done"}) => child.status = NoTerm

NextChild ==
    \/ \E c \in ExtCommands : ChildFork(c)
    \/ ChildOpenInput
    \/ ChildOpenOutput
    \/ ChildExecvp
    \/ ChildProgramExit

SpecChild == InitChild /\ [][NextChild]_vars

\* The interpreter loop keeps iterating: each step of the sequential shell
\* code is eventually taken, a line is eventually entered at the prompt, and
\* every child gets through its own steps and terminates.
Fairness ==
    /\ WF_vars(check_background_processes)
    /\ WF_vars(ShowPrompt)
    /\ WF_vars(\E c \in Commands : DoComment(c))
    /\ WF_vars(\E c \in Commands : LaunchBackground(c))
    /\ WF_vars(FgWaitReturn)
    /\ \A p \in Pids : WF_vars(ChildExec(p))
    /\ \A p \in Pids : WF_vars(ChildExit(p))

FairSpecSmallTable == InitSmallTable /\ [][Next]_vars /\ Fairness

TypeOK ==
    /\ pc \in {"reap", "swept", "prompt", "bg_fork", "fg_wait", "done"}
    /\ slot \in DOMAIN background_processes
    /\ pc # "reap" => slot = 1
    /\ cmd_spill \in BOOLEAN
    /\ fg_only \in BOOLEAN
    /\ \A i \in DOMAIN background_processes : background_processes[i] \in Pids \cup {0}
    /\ fgPid \in Pids \cup {0}
    /\ exit_code \in {-1, 0, 1, -SIGSEGV}

\* ============================================================== properties
\* Helpers for stating the properties.
Alive(pe) == pe.st \in {"pre", "run"}
RecordOf(w) ==
    [exited |-> (w.kind = "exited"), terminated |-> (w.kind = "signaled"),
     code |-> w.code]
Occupied(tbl) == {i \in DOMAIN tbl : tbl[i] # 0}
HasMsg(o, m) == \E i \in DOMAIN o : o[i] = m
AnyBgPidMsg(o) == \E p \in Pids : HasMsg(o, BgPidMsg(p))
AnyBgDoneMsg(o, p) ==
    \E i \in DOMAIN o : o[i][1] \in {BgDoneExitMsg(p, 0)[1], BgDoneSigMsg(p, 0)[1]}
                        /\ o[i][2] = p

\* C1: for every foreground command, also when SIGTSTP or SIGINT reaches the
\* shell during the wait, the shell leaves the wait (and so shows the next
\* prompt) only once the child has terminated, and the status record is
\* then that child's termination.
C1_ForegroundWaitsForChild ==
    [][(pc = "fg_wait" /\ pc' # "fg_wait")
         => /\ proc[fgPid].st = "zombie"
            /\ prev_fg_status' = RecordOf(proc[fgPid].res)]_vars

\* The shell's last step was a pass of the reaper that reported p.
Reported(p) == ev = "reap" /\ AnyBgDoneMsg(out, p)
\* A pass of the reaper's loop, over the slot that `slot` names.
ReaperPass == pc = "reap" /\ (slot' # slot \/ pc' # "reap")
\* LaunchBackground: the fork of background_process and what follows it.
BackgroundLaunch == pc = "bg_fork" /\ ev' = "bg_launch"
\* The shell is back in the loop of main(): at its top, or, after a line
\* that filled argv up to argc, dead in the free_command that ends the
\* iteration.
BackInLoop(spill) ==
    \/ pc' = "reap" /\ exit_code' = exit_code
    \/ spill /\ pc' = "done" /\ exit_code' = -SIGSEGV
Recorded(p) == \E i \in DOMAIN background_processes : background_processes[i] = p

\* A printed pid whose process has terminated and which the reaper has not
\* yet collected; the same, restricted to pids that are in the job table.
Finished(p) == p \in announced /\ proc[p].st = "zombie"
FinishedRecorded(p) == Finished(p) /\ Recorded(p)

\* C2 (as stated): every pid printed by a background launch is, once its
\* process has exited and as long as the loop keeps iterating, reported as
\* done by the reaper, however many background processes there are: a
\* finished printed pid stops being one only by a reaper report naming it,
\* and again and again no finished printed pid is left unreported.
C2_AnnouncedPidReported ==
    /\ [][\A p \in Pids : (Finished(p) /\ ~Finished(p)') => Reported(p)']_vars
    /\ []<>((\A p \in Pids : ~Finished(p)) \/ pc = "done")

\* C2 (amended): the same for every printed pid that found a free slot in
\* the job table when it was launched.
C2_RecordedPidReported ==
    /\ [][\A p \in Pids : (FinishedRecorded(p) /\ ~FinishedRecorded(p)')
                               => Reported(p)']_vars
    /\ []<>((\A p \in Pids : ~FinishedRecorded(p)) \/ pc = "done")

\* The reaper has just reported a recorded pid as done while another printed
\* pid, launched when the table was full, is in no slot.
C2_Witness ==
    \E p, q \in Pids :
        /\ p # q
        /\ Reported(p)
        /\ q \in announced
        /\ ~Recorded(q)

\* C3: the parent side of a background launch forks, prints "background
\* pid is P", puts P into the lowest-index free slot (leaving the other
\* slots alone) and returns to the loop of main() without a wait: the child
\* is still in its own code when the shell goes on.
C3_BackgroundDoesNotWait ==
    [][BackgroundLaunch
         => \E p \in Pids :
              /\ proc[p].st = "free"
              /\ Alive(proc'[p])
              /\ out' = <<BgPidMsg(p)>>
              /\ BackInLoop(cmd_spill)
              /\ fgPid' = 0
              /\ \A i \in DOMAIN background_processes :
                   IF background_processes[i] = 0
                      /\ \A j \in 1..(i - 1) : background_processes[j] # 0
                   THEN background_processes'[i] = p
                   ELSE background_processes'[i] = background_processes[i]]_vars

\* A background launch has just put its pid into the second slot because the
\* first was taken, and the child has not terminated.
C3_Witness ==
    /\ ev = "bg_launch"
    /\ pc = "reap"
    /\ Len(background_processes) >= 2
    /\ background_processes[1] # 0
    /\ background_processes[2] # 0
    /\ out = <<BgPidMsg(background_processes[2])>>
    /\ Alive(proc[background_processes[2]])

\* C4: when fg_only is true at dispatch, a launch creates a foreground child
\* whatever is_bg says: no "background pid is" line, no slot filled, and the
\* shell stays in the wait until that child has terminated.
C4_ForegroundOnlyIgnoresAmpersand ==
    [][/\ (pc = "prompt" /\ fg_only) => pc' # "bg_fork"
       /\ (pc = "prompt" /\ fg_only /\ \E p \in Pids : proc[p].st = "free" /\ proc'[p].st # "free")
            => /\ pc' = "fg_wait"
               /\ background_processes' = background_processes
               /\ ~AnyBgPidMsg(out')
       /\ (pc = "fg_wait" /\ cmd_is_bg /\ pc' # "fg_wait")
            => proc[fgPid].st = "zombie"]_vars

\* C5: no pid sits in two slots; a slot goes from occupied to empty only in
\* the reaper and only when its process had terminated; a pass of the reaper
\* over an empty slot or over one whose process is still running changes
\* and prints nothing, so a sweep that meets only such slots does neither.
C5_NoDuplicatePid ==
    \A i, j \in DOMAIN background_processes :
        (i # j /\ background_processes[i] # 0)
            => background_processes[i] # background_processes[j]

C5_JobTable ==
    /\ []C5_NoDuplicatePid
    /\ [][/\ \A i \in DOMAIN background_processes :
                (background_processes[i] # 0 /\ background_processes'[i] = 0)
                    => /\ ReaperPass
                       /\ i = slot
                       /\ proc[background_processes[i]].st = "zombie"
          /\ (/\ ReaperPass
              /\ \/ background_processes[slot] = 0
                 \/ Alive(proc[background_processes[slot]]))
                => /\ background_processes' = background_processes
                   /\ proc' = proc
                   /\ out' = <<>>]_vars

\* The reaper has just cleared the slot of a terminated process, and another
\* slot holds a running one.
C5_Witness ==
    /\ ev = "reap"
    /\ \E p \in Pids : AnyBgDoneMsg(out, p) /\ \A i \in DOMAIN background_processes : background_processes[i] # p
    /\ \E i \in Occupied(background_processes) : Alive(proc[background_processes[i]])

InitialStatus == [exited |-> FALSE, terminated |-> FALSE, code |-> 0]
BannerCount(o) == Cardinality({i \in DOMAIN o : o[i] \in {EnterMsg, ExitMsg}})

\* C6: the status record changes only in the foreground wait; background
\* launches and the reaper leave it alone, so until foreground_process has
\* first been entered the record is the initial one and `status` prints
\* "exit status 0".
C6_StatusOnlyByForeground ==
    /\ [](~fgRan => prev_fg_status = InitialStatus)
    /\ [][/\ (prev_fg_status' # prev_fg_status) => pc = "fg_wait"
          /\ (pc = "prompt" /\ ev' = "status" /\ ~fgRan)
                => out' = <<ExitStatus0Msg>>]_vars

\* Before any foreground command, the reaper has just reported a background
\* process killed by a signal, and the record is still the initial one.
C6_Witness ==
    /\ ev = "reap"
    /\ ~fgRan
    /\ \E p \in Pids, sg \in KillSignals : HasMsg(out, BgDoneSigMsg(p, sg))
    /\ prev_fg_status = InitialStatus

\* C7: every delivery of SIGTSTP to the shell, wherever the shell is, flips
\* fg_only and writes exactly one banner, the one of the mode entered.
C7_SigtstpToggles ==
    [][Signal("TSTP")
         => /\ fg_only' = ~fg_only
            /\ BannerCount(out') = 1
            /\ HasMsg(out', IF fg_only' THEN EnterMsg ELSE ExitMsg)]_vars

\* A delivery during a foreground wait has just taken fg_only back to false
\* (so at least two deliveries happened) and printed the exit banner.
C7_Witness ==
    /\ ev = "TSTP"
    /\ fg_only = FALSE
    /\ HasMsg(out, ExitMsg)
    /\ HasMsg(out, WaitErrMsg)

\* C8: a SIGINT delivered to the shell, at the prompt, in a foreground wait
\* or around a sweep, leaves the shell where it was, does not end it, and
\* changes none of fg_only, the job table and the status record.
C8_SigintDiscarded ==
    [][Signal("INT")
         => /\ pc' = pc
            /\ pc' # "done"
            /\ exit_code' = exit_code
            /\ fg_only' = fg_only
            /\ background_processes' = background_processes
            /\ prev_fg_status' = prev_fg_status]_vars

\* SIGINT has just been delivered during a foreground wait whose child is
\* still running (with a job in the table), and the shell is still waiting.
C8_Witness ==
    /\ ev = "INT"
    /\ pc = "fg_wait"
    /\ Alive(proc[fgPid])
    /\ Occupied(background_processes) # {}

\* C9: a child that is through its redirection, about to call execvp or
\* running its program, has the default disposition for SIGINT (it restored
\* it after the redirection), so a SIGINT sent to it terminates it.
C9_ChildRestoresSigint ==
    child.at \in {"out_done", "run"} => child.sigint = "default"

\* C10: the reaper runs exactly once in each loop iteration, between the
\* top of the loop and the prompt: a sweep starts at the first slot, goes
\* on slot by slot and is over after the last one; no pass is ever blocked,
\* and a pass over a slot whose process is still running keeps the slot,
\* prints nothing and goes on to the next.
C10_ReaperOncePerIteration ==
    /\ [](pc = "reap" => ENABLED check_background_processes)
    /\ [][/\ (pc = "reap" /\ (pc' # "reap" \/ slot' # slot))
                => /\ ev' = "reap"
                   /\ IF slot = Len(background_processes)
                      THEN pc' = "swept"
                      ELSE pc' = "reap" /\ slot' = slot + 1
          /\ (pc' = "swept" /\ pc # "swept") => pc = "reap"
          /\ (pc = "swept" /\ pc' # "swept") => (pc' = "prompt" /\ out' = <<PromptMsg>>)
          /\ (pc' = "prompt" /\ pc # "prompt") => pc = "swept"
          /\ (pc' = "reap" /\ pc # "reap")
                => (pc \in {"prompt", "bg_fork", "fg_wait"} /\ slot' = 1)
          /\ (ReaperPass /\ background_processes[slot] # 0
                         /\ Alive(proc[background_processes[slot]]))
                => /\ background_processes'[slot] = background_processes[slot]
                   /\ ~AnyBgDoneMsg(out', background_processes[slot])]_vars

\* A sweep has just ended with a pass over a slot whose process is still
\* running, after an earlier slot was collected: the shell is on its way to
\* the prompt.
C10_Witness ==
    /\ ev = "reap"
    /\ pc = "swept"
    /\ out = <<>>
    /\ Len(background_processes) >= 2
    /\ background_processes[1] = 0
    /\ \E p \in Pids : p \notin announced /\ proc[p].st = "free"
    /\ background_processes[Len(background_processes)] # 0
    /\ Alive(proc[background_processes[Len(background_processes)]])

\* The record an exit with code c is classified into.
ExitRecord(c) == [exited |-> TRUE, terminated |-> FALSE, code |-> c]

\* A child whose execvp is going to fail, or a child that has ended with
\* the exit status of that failure.
ExecFails(pe) ==
    \/ pe.st = "pre" /\ pe.res = ExecFailure
    \/ pe.st = "zombie" /\ pe.res = Exited(2)

\* C11: a child whose execvp fails (one that is not killed before it gets
\* there) ends with exit status 2 and that step changes nothing of the
\* shell; the foreground launch of such a command
\* is over with the status record "exit value 2" (what `status` then
\* prints), and the reaper reports "exit value 2" for such a recorded
\* background pid.
C11_ExecFailureExit2 ==
    [][/\ \A p \in Pids :
            (proc[p].st = "pre" /\ proc[p].res = ExecFailure /\ proc'[p] # proc[p]
                                /\ proc'[p] # Zombie(Signaled(SIGTERM)))
                => /\ proc'[p] = Zombie(Exited(2))
                   /\ UNCHANGED <<pc, fg_only, background_processes,
                                  prev_fg_status, exit_code>>
       /\ (pc = "fg_wait" /\ pc' # "fg_wait" /\ ExecFails(proc[fgPid]))
            => /\ prev_fg_status' = ExitRecord(2)
               /\ StatusOut(prev_fg_status') = <<ExitValueMsg(2)>>
       /\ (ReaperPass /\ background_processes[slot] # 0
                      /\ proc[background_processes[slot]] = Zombie(Exited(2)))
            => out' = <<BgDoneExitMsg(background_processes[slot], 2)>>]_vars

\* The child of a command gets to a path that does not open (the output
\* path is not reached when binding the input fails).
BadPathReached(c, bg) ==
    \/ c.input_file = "bad"
    \/ c.output_file = "bad" /\ ~(Dup2Called(c.input_file, bg) /\ c.dup2 = "fails0")

\* A child, still in the code of the shell, one of whose opens is going to
\* fail.
OpenFails(pe) == pe.st = "pre" /\ pe.res = Exited(1)

\* C12: the child of a command with an input or output path that does not
\* open ends with exit status 1 and never runs the program (unless it is
\* killed or abandoned before it ends), and the step in which it ends
\* changes nothing of the shell.  The shell handles it as any child that
\* exited with code 1: the foreground wait for it returns into the loop of
\* main() with the record "exit value 1", nothing printed, fg_only and the
\* job table as they were; the reaper's pass over its slot reports "exit
\* value 1", empties that slot only and goes on, the shell still running.
C12_OpenFailureExit1 ==
    [][/\ (pc = "prompt" /\ pc' = "fg_wait")
            => \A c \in Commands :
                 (LaunchForeground(c) /\ BadPathReached(c, FALSE))
                    => OpenFails(proc'[fgPid'])
       /\ BackgroundLaunch
            => \A c \in Commands :
                 (LaunchBackground(c) /\ BadPathReached(c, TRUE))
                    => \E p \in Pids : proc[p].st = "free" /\ OpenFails(proc'[p])
       /\ \A p \in Pids :
            (OpenFails(proc[p]) /\ proc'[p] # proc[p])
                => /\ proc'[p] \in {Zombie(Exited(1)), Zombie(Signaled(SIGTERM)), Lost}
                   /\ proc'[p] = Zombie(Exited(1))
                        => UNCHANGED <<pc, slot, fg_only, background_processes,
                                       prev_fg_status, fgPid, exit_code, out, ev>>
       /\ (pc = "fg_wait" /\ pc' # "fg_wait" /\ proc[fgPid] = Zombie(Exited(1)))
            => /\ BackInLoop(cmd_spill)
               /\ fg_only' = fg_only
               /\ background_processes' = background_processes
               /\ prev_fg_status' = ExitRecord(1)
               /\ out' = <<>>
       /\ (ReaperPass /\ background_processes[slot] # 0
                      /\ proc[background_processes[slot]] = Zombie(Exited(1)))
            => /\ out' = <<BgDoneExitMsg(background_processes[slot], 1)>>
               /\ background_processes' = [background_processes EXCEPT ![slot] = 0]
               /\ fg_only' = fg_only
               /\ prev_fg_status' = prev_fg_status
               /\ pc' \in {"reap", "swept"}
               /\ exit_code' = exit_code]_vars

\* The foreground wait has just returned with "exit value 1" and the shell
\* is at the top of the loop, while a background child whose open is going
\* to fail sits in the job table.
C12_Witness ==
    /\ ev = "fg_done"
    /\ pc = "reap"
    /\ prev_fg_status = ExitRecord(1)
    /\ out = <<>>
    /\ \E i \in Occupied(background_processes) :
          OpenFails(proc[background_processes[i]])

\* What a side is bound to once the redirection part is through.
BoundTo(path, file, bg) ==
    IF path # "none" THEN file ELSE IF bg THEN "/dev/null" ELSE "shell"

\* C13: a child that got through its redirection runs in the background
\* launcher exactly when the command has & and fg_only is false; there each
\* side is bound to its file if one is given and to /dev/null if not; in
\* the foreground launcher (also for an & command under fg_only) a side
\* without a path is still the shell's own stream.
C13_RedirectionBinding ==
    child.at \in {"out_done", "run"}
        => /\ child.bg = (child.cmd.is_bg /\ ~fg_only)
           /\ child.fd0 = BoundTo(child.cmd.input_file, "input_file", child.bg)
           /\ child.fd1 = BoundTo(child.cmd.output_file, "output_file", child.bg)

\* A background program runs with its input on /dev/null and its output on
\* the file the command names.
C13_Witness ==
    /\ child.at = "run"
    /\ child.bg
    /\ child.cmd.input_file = "none"
    /\ child.fd0 = "/dev/null"
    /\ child.fd1 = "output_file"

AnyTermMsg(o) == \E i \in DOMAIN o : o[i][1] = TermMsg(0)[1]

\* C14: when the shell leaves a foreground wait it prints "terminated by
\* signal N" exactly when the child it waited for was killed by a signal,
\* N being that signal; after a child that exited, or after a wait that
\* failed, it prints no such line, whatever the record held before.
C14_TerminatedLineOnlyForOwnChild ==
    [][(pc = "fg_wait" /\ pc' # "fg_wait")
         => IF proc[fgPid].st = "zombie" /\ proc[fgPid].res.kind = "signaled"
            THEN out' = <<TermMsg(proc[fgPid].res.code)>>
            ELSE ~AnyTermMsg(out')]_vars

\* C15: the shell ends only at the dispatch of a line or at the fork of a
\* launcher, either by the exit built-in, with status 0, or by a fork()
\* that failed, with status 1; no
\* step of a child (failed open, failed execvp, exit, death by signal), no
\* return from a foreground wait, no failed wait and no sweep ends it.
C15_OnlyExitOrForkFailureEnds ==
    /\ [](pc = "done" => \/ ev = "exit" /\ exit_code = 0
                         \/ ev = "fork_failed" /\ exit_code = 1)
    /\ [](pc # "done" => exit_code = -1)
    /\ [][(pc' = "done" /\ pc # "done")
             => /\ pc \in {"prompt", "bg_fork"}
                /\ proc' = proc]_vars

\* A line whose first word selects a built-in, and the step the shell
\* takes on reading a line.
BuiltinLines == {c \in Commands : c.kind \in BuiltinKinds}
Dispatch(c) ==
    ParseCrash(c) \/ DoComment(c) \/ DoExit(c) \/ DoCd(c) \/ DoStatus(c)
        \/ ForkFail(c) \/ DispatchBackground(c) \/ LaunchBackground(c)
        \/ LaunchForeground(c)

\* C16: the step the shell takes for a built-in line, with or without &,
\* whatever redirections the line carries, in either mode, is never a fork
\* and leaves every process as it is; for cd, status and a comment or
\* empty line it goes to the top of the loop with the job table, the status
\* record and fg_only unchanged; for exit it ends the shell with status 0,
\* the job table and the processes in it left as they are.
C16_BuiltinsSpawnNothing ==
    [][\A c \in BuiltinLines :
          Dispatch(c)
            => /\ proc' = proc
               /\ ~AnyBgPidMsg(out')
               /\ background_processes' = background_processes
               /\ prev_fg_status' = prev_fg_status
               /\ fg_only' = fg_only
               /\ IF c.kind = "exit"
                  THEN pc' = "done" /\ exit_code' = 0
                  ELSE pc' = "reap" /\ exit_code' = exit_code]_vars

\* C17: the job table has a fixed number of slots and so never holds more
\* pids than that; a background launch made while every slot is occupied
\* still creates the child and prints "background pid is P", and nothing
\* else, and leaves every slot as it was.
C17_FullTableDropsPid ==
    /\ [](/\ Len(background_processes) = SmallTable
          /\ Cardinality(Occupied(background_processes)) <= SmallTable)
    /\ [][(BackgroundLaunch /\ FreeSlots(background_processes) = {})
             => /\ \E p \in Pids :
                     /\ proc[p].st = "free"
                     /\ Alive(proc'[p])
                     /\ out' = <<BgPidMsg(p)>>
                /\ background_processes' = background_processes
                /\ ~cmd_spill => (pc' = "reap" /\ exit_code' = exit_code)]_vars

\* A background launch has just printed a pid that is in no slot, every
\* slot being taken by another pid, and its child is alive.
C17_Witness ==
    /\ ev = "bg_launch"
    /\ FreeSlots(background_processes) = {}
    /\ \E p \in Pids :
          /\ out = <<BgPidMsg(p)>>
          /\ ~Recorded(p)
          /\ Alive(proc[p])

\* C18: an occupied slot changes only in the reaper, in the pass over that
\* slot, which empties it and reports its pid, that process having
\* terminated; every other step (launches, foreground wait, built-ins, both
\* signal handlers) leaves it.  The foreground wait collects no child but
\* its own, so a recorded background process that terminates meanwhile
\* stays for the reaper; and the pass over a slot whose process has
\* terminated reports and empties it whether or not fg_only is set.
C18_OnlyReaperClearsSlots ==
    [][/\ \A i \in DOMAIN background_processes :
            (background_processes[i] # 0
               /\ background_processes'[i] # background_processes[i])
                => /\ ReaperPass
                   /\ i = slot
                   /\ background_processes'[i] = 0
                   /\ proc[background_processes[i]].st = "zombie"
                   /\ AnyBgDoneMsg(out', background_processes[i])
       /\ \A p \in Pids :
            (Recorded(p) /\ proc[p].st = "zombie" /\ proc'[p] # proc[p])
                => (ReaperPass /\ background_processes[slot] = p)
       /\ (ReaperPass /\ background_processes[slot] # 0
                      /\ proc[background_processes[slot]].st = "zombie")
            => /\ AnyBgDoneMsg(out', background_processes[slot])
               /\ background_processes'[slot] = 0]_vars

\* In foreground-only mode, with a foreground command behind it, the reaper
\* has just reported a background job and emptied its slot.
C18_Witness ==
    /\ ev = "reap"
    /\ fg_only
    /\ fgRan
    /\ \E p \in Pids : AnyBgDoneMsg(out, p) /\ ~Recorded(p)

Tagged(rec) == rec.exited \/ rec.terminated

\* C19: the status record never has both flags set; it has neither only as
\* long as it is the initial record, and once a foreground wait has set a
\* flag one flag stays set; a wait that returned a status always sets one;
\* and `status` prints one line, the one its tag selects.
C19_StatusRecordTag ==
    /\ [](~(prev_fg_status.exited /\ prev_fg_status.terminated))
    /\ [](~Tagged(prev_fg_status) => prev_fg_status = InitialStatus)
    /\ [][/\ Tagged(prev_fg_status) => Tagged(prev_fg_status')
          /\ (pc = "fg_wait" /\ pc' # "fg_wait" /\ proc[fgPid].st = "zombie")
                => Tagged(prev_fg_status')
          /\ (pc = "prompt" /\ ev' = "status")
                => /\ Len(out') = 1
                   /\ prev_fg_status.exited
                        => out'[1] = ExitValueMsg(prev_fg_status.code)
                   /\ prev_fg_status.terminated
                        => out'[1] = TermMsg(prev_fg_status.code)
                   /\ ~Tagged(prev_fg_status) => out'[1] = ExitStatus0Msg]_vars

\* `status` has just printed "terminated by signal 15" from a record that
\* is tagged killed-by-signal only.
C19_Witness ==
    /\ ev = "status"
    /\ prev_fg_status = [exited |-> FALSE, terminated |-> TRUE, code |-> SIGTERM]
    /\ out = <<TermMsg(SIGTERM)>>

ReadOpens == {i \in DOMAIN child.opens : child.opens[i].mode = "O_RDONLY"}
WriteOpens == {i \in DOMAIN child.opens : child.opens[i].mode # "O_RDONLY"}

\* C20: in either launcher the child opens its input side, then its output
\* side, then calls execvp: no open for writing comes before an open for
\* reading, and the program runs only after every open made has succeeded.
\* With an input path that does not open, no open for writing (which would
\* create or truncate the output file) is ever made and the program never
\* runs; with an output path that does not open the program never runs.
C20_InputThenOutputThenExec ==
    /\ \A i \in WriteOpens, j \in ReadOpens : j < i
    /\ Cardinality(ReadOpens) <= 1
    /\ Cardinality(WriteOpens) <= 1
    /\ child.at = "run"
         => /\ \A i \in DOMAIN child.opens : child.opens[i].ok
            /\ child.cmd.input_file # "none" => ReadOpens # {}
            /\ child.cmd.output_file # "none" => WriteOpens # {}
    /\ (child.at # "none" /\ child.cmd.input_file = "bad")
         => (WriteOpens = {} /\ child.at \in {"forked", "exited"})
    /\ (child.at # "none" /\ child.cmd.output_file = "bad")
         => child.at \in {"forked", "in_done", "exited"}

\* A foreground child whose command names an input that does not open and an
\* output that would: it has exited after the one failed open.
C20_Witness ==
    /\ ~child.bg
    /\ child.at = "exited"
    /\ child.cmd.input_file = "bad"
    /\ child.cmd.output_file = "ok"
    /\ Len(child.opens) = 1
    /\ child.opens[1].mode = "O_RDONLY"
    /\ ~child.opens[1].ok

====
